---- MODULE Spec2Model ----
(***************************************************************************)
(* Model of lstt.py: the four stage pipeline of main (get_stickers_urls,   *)
(* download_stickers, resize_stickers, create_telegram_sticker_set), the   *)
(* download directory it uses as a cache, and the requests and bot calls   *)
(* it issues.  One run of main is followed, and main may be run again      *)
(* against the directory the previous run left behind.                     *)
(***************************************************************************)
EXTENDS Naturals, Sequences, FiniteSets, TLC

VARIABLES
    pc,                     \* position of the run inside main
    exc,                    \* the exception that ended the run, or "none"
    i,                      \* index of the item the running loop is at
    ids,                    \* keys of sticker_data, in insertion order
    sticker_data,           \* sid -> [url, raw_path, resized_path]
    dir_exists,             \* download_directory is a directory
    files,                  \* path -> content of the file at that path
    body,                   \* response.content of the request being written
    requests_log,           \* HTTP GETs of download_stickers, in order
    decode_log,             \* sids given to Image.open, in order
    sticker_set_name,       \* local variable of create_telegram_sticker_set
    requested_name,         \* the sticker_set_name argument of main
    created,                \* local variable of create_telegram_sticker_set
    calls,                  \* bot calls of the publish loop, in order
    real_sticker_set_name,  \* main's variable, second element of the result
    console,                \* lines printed by main
    prev,                   \* what the previous run's stages recorded
    page,                   \* the nodes of the markup served at the page url
    page_status,            \* outcome of the page request of this run
    image                   \* width, height and new size of an opened image

vars == <<pc, exc, i, ids, sticker_data, dir_exists, files, body,
          requests_log, decode_log, sticker_set_name, requested_name,
          created, calls, real_sticker_set_name, console, prev,
          page, page_status, image>>

(***************************************************************************)
(* Bounds and values                                                       *)
(***************************************************************************)
NumIds == 3

PageIds == <<"101", "102", "103", "104", "105">>

RequestedNames == {"cats", "my_set"}

BotUsernames == {"lstt_bot", "line2tg_bot"}

None == "None"

Unset == "<unset>"

NoBody == "<nobody>"

Sids == {PageIds[k] : k \in 1..NumIds}

(***************************************************************************)
(* Paths, urls and the directory                                           *)
(***************************************************************************)
download_directory == "lstt"

Range(seq) == {seq[k] : k \in 1..Len(seq)}

Versions == {"1", "2"}

StickerUrl(version, sid) ==
    "https://stickershop.line-scdn.net/stickershop/v" \o version
        \o "/sticker/" \o sid \o "/android/sticker.png"

Url(sid) == StickerUrl("1", sid)

RawPath(sid) == download_directory \o "/" \o sid \o ".png"

ResizedPath(sid) == download_directory \o "/" \o sid \o ".resized.png"

AllPaths == {RawPath(s) : s \in Sids} \cup {ResizedPath(s) : s \in Sids}

Content(path) == IF path \in DOMAIN files THEN files[path] ELSE "none"

is_file(path) == Content(path) # "none"

Sid_Reversed == ids[Len(ids) + 1 - i]

Sid == ids[i]

InLoop == i <= Len(ids)

NextIndex_Retry(index) == index

NextIndex(index) == index + 1

SetField_Replace(sid, field, value) ==
    [sticker_data EXCEPT
        ![sid] = [[url |-> Unset, raw_path |-> Unset, resized_path |-> Unset]
                     EXCEPT ![field] = value]]

SetField(sid, field, value) ==
    [sticker_data EXCEPT ![sid] = [@ EXCEPT ![field] = value]]

(***************************************************************************)
(* The page: a sequence of nodes, each with a class and a style attribute  *)
(* (None when the node has none).  StandardPage is a sticker page with one *)
(* unrelated node and NumIds sticker nodes.                                *)
(***************************************************************************)
StyleText(url, compress) == "background-image:url(" \o url \o compress \o ");"

StickerNode(version, sid, compress) ==
    [class |-> "mdCMN09Image",
     style |-> StyleText(StickerUrl(version, sid), compress)]

StandardPage ==
    <<[class |-> "mdCMN38Img", style |-> None]>>
        \o [k \in 1..NumIds |-> StickerNode("1", PageIds[k], ";compress=true")]

NoImage == [width |-> 0, height |-> 0, size |-> <<>>]

(***************************************************************************)
(* Init: main has been called.  The download directory may be missing or   *)
(* hold files of earlier use: complete raw images, resized images, or both.*)
(***************************************************************************)
Init ==
    /\ pc = "scrape"
    /\ exc = "none"
    /\ i = 1
    /\ ids = <<>>
    /\ sticker_data = [s \in {} |-> None]
    /\ dir_exists \in BOOLEAN
    /\ files \in [AllPaths -> {"none", "image"}]
    /\ (~dir_exists => \A p \in AllPaths : files[p] = "none")
    /\ body = NoBody
    /\ requests_log = <<>>
    /\ decode_log = <<>>
    /\ sticker_set_name = Unset
    /\ requested_name = Unset
    /\ created = FALSE
    /\ calls = <<>>
    /\ real_sticker_set_name = Unset
    /\ console = <<>>
    /\ prev = [returned |-> FALSE, raw |-> [s \in {} |-> None],
               resize_returned |-> FALSE, resized |-> [s \in {} |-> None],
               decoded |-> {}]
    /\ page = StandardPage
    /\ page_status = "unsent"
    /\ image = NoImage

Raise(e) ==
    /\ pc' = "aborted"
    /\ exc' = e

(***************************************************************************)
(* get_stickers_urls                                                       *)
(***************************************************************************)
PageStatuses == {"200", "404", "503"}

raise_for_status_Never(status) == FALSE

raise_for_status(status) == status \in {"404", "503"}

ResponseNodes(status) == IF status = "200" THEN page ELSE <<>>

(* re.compile(r".*Image$") searched in the class attribute *)
ClassMatches(class) ==
    /\ Len(class) >= 5
    /\ SubSeq(class, Len(class) - 4, Len(class)) = "Image"

(* the texts the style pattern can match: any version, any identifier,    *)
(* with or without ;compress=true; group 1 is url and group 2 is sid      *)
StyleCandidates ==
    {[url |-> StickerUrl(v, sid), sid |-> sid,
      text |-> StyleText(StickerUrl(v, sid), c)] :
        v \in Versions, sid \in Range(PageIds), c \in {"", ";compress=true"}}

StyleHits(style) ==
    {h \in (1..Len(style)) \X StyleCandidates :
        /\ h[1] + Len(h[2].text) - 1 <= Len(style)
        /\ SubSeq(style, h[1], h[1] + Len(h[2].text) - 1) = h[2].text}

StyleMatches(style) == StyleHits(style) # {}

(* re.search: the leftmost match *)
Match(style) ==
    LET hits == StyleHits(style)
    IN  (CHOOSE h \in hits : \A g \in hits : h[1] <= g[1])[2]

Selected_StyleOnly(node) == StyleMatches(node.style)

Selected(node) == ClassMatches(node.class) /\ StyleMatches(node.style)

(* the match object of each tag, in the order of the tags *)
Matches(tags) == [k \in 1..Len(tags) |-> Match(tags[k].style)]

(* the keys of the dict after the loop over the tags' matches: a key      *)
(* keeps the place of its first insertion                                 *)
RECURSIVE ScrapedKeys(_)
ScrapedKeys(matches) ==
    IF matches = <<>>
       THEN <<>>
       ELSE LET front == ScrapedKeys(SubSeq(matches, 1, Len(matches) - 1))
                sid == matches[Len(matches)].sid
            IN  IF sid \in Range(front) THEN front ELSE Append(front, sid)

(* the value of a key after the loop: the one of its last insertion *)
ScrapedUrl(matches, sid) ==
    LET last == CHOOSE k \in 1..Len(matches) :
                   /\ matches[k].sid = sid
                   /\ \A j \in (k + 1)..Len(matches) : matches[j].sid # sid
    IN  matches[last].url

ScrapedData(matches) ==
    [s \in Range(ScrapedKeys(matches)) |->
        [url |-> ScrapedUrl(matches, s), raw_path |-> Unset,
         resized_path |-> Unset]]

ScrapeOk ==
    /\ pc = "scrape"
    /\ \E status \in PageStatuses :
         /\ ~raise_for_status(status)
         /\ page_status' = status
         /\ \E matches \in
                 {Matches(SelectSeq(ResponseNodes(status), Selected))} :
              /\ ids' = ScrapedKeys(matches)
              /\ sticker_data' = ScrapedData(matches)
    /\ pc' = "mkdir"
    /\ UNCHANGED <<exc, i, dir_exists, files, body, requests_log, decode_log,
                   sticker_set_name, requested_name, created, calls,
                   real_sticker_set_name, console, prev, page, image>>

ScrapeFail ==
    /\ pc = "scrape"
    /\ \E status \in PageStatuses \cup {"ConnectionError"} :
         /\ status = "ConnectionError" \/ raise_for_status(status)
         /\ page_status' = status
         /\ Raise(IF status = "ConnectionError"
                     THEN "scrape:ConnectionError"
                     ELSE "scrape:HTTPError")
    /\ UNCHANGED <<i, ids, sticker_data, dir_exists, files, body,
                   requests_log, decode_log, sticker_set_name, requested_name,
                   created, calls, real_sticker_set_name, console, prev,
                   page, image>>

(***************************************************************************)
(* download_stickers                                                       *)
(***************************************************************************)
DlMkdir ==
    /\ pc = "mkdir"
    /\ dir_exists' = TRUE
    /\ pc' = "download"
    /\ i' = 1
    /\ UNCHANGED <<exc, ids, sticker_data, files, body, requests_log,
                   decode_log, sticker_set_name, requested_name, created,
                   calls, real_sticker_set_name, console, prev>>
    /\ UNCHANGED <<page, page_status, image>>

DlMkdirFail ==
    /\ pc = "mkdir"
    /\ ~dir_exists
    /\ Raise("mkdir:OSError")
    /\ UNCHANGED <<i, ids, sticker_data, dir_exists, files, body,
                   requests_log, decode_log, sticker_set_name, requested_name,
                   created, calls, real_sticker_set_name, console, prev>>
    /\ UNCHANGED <<page, page_status, image>>

NeedsRequest_Always(file_path) == TRUE

NeedsRequest_Inverted(file_path) == is_file(file_path)

NeedsRequest(file_path) == ~is_file(file_path)

DlCached ==
    /\ pc = "download"
    /\ InLoop
    /\ ~NeedsRequest(RawPath(Sid))
    /\ sticker_data' = SetField(Sid, "raw_path", RawPath(Sid))
    /\ i' = NextIndex(i)
    /\ UNCHANGED <<pc, exc, ids, dir_exists, files, body, requests_log,
                   decode_log, sticker_set_name, requested_name, created,
                   calls, real_sticker_set_name, console, prev>>
    /\ UNCHANGED <<page, page_status, image>>

DlRequest ==
    /\ pc = "download"
    /\ InLoop
    /\ NeedsRequest(RawPath(Sid))
    /\ requests_log' = Append(requests_log,
                              [sid |-> Sid, url |-> sticker_data[Sid].url,
                               result |-> "pending"])
    /\ pc' = "dl_get"
    /\ UNCHANGED <<exc, i, ids, sticker_data, dir_exists, files, body,
                   decode_log, sticker_set_name, requested_name, created,
                   calls, real_sticker_set_name, console, prev>>
    /\ UNCHANGED <<page, page_status, image>>

SetResult(log, result) == [log EXCEPT ![Len(log)].result = result]

DownloadCatches(e) == e = "HTTPError"

DlRequestFail ==
    /\ pc = "dl_get"
    /\ \E e \in {"HTTPError", "ConnectionError"} :
         /\ requests_log' = SetResult(requests_log, e)
         /\ IF DownloadCatches(e)
               THEN /\ sticker_data' = SetField(Sid, "raw_path", None)
                    /\ console' = Append(console,
                                     "Couldn't download sticker " \o Sid)
                    /\ i' = NextIndex(i)
                    /\ pc' = "download"
                    /\ UNCHANGED exc
               ELSE /\ Raise("download:" \o e)
                    /\ UNCHANGED <<i, sticker_data, console>>
    /\ UNCHANGED <<ids, dir_exists, files, body, decode_log,
                   sticker_set_name, requested_name, created, calls,
                   real_sticker_set_name, prev>>
    /\ UNCHANGED <<page, page_status, image>>

DlResponseOk ==
    /\ pc = "dl_get"
    /\ \E content \in {"image", "garbage"} : body' = content
    /\ requests_log' = SetResult(requests_log, "ok")
    /\ files' = [files EXCEPT ![RawPath(Sid)] = "partial"]
    /\ pc' = "dl_write"
    /\ UNCHANGED <<exc, i, ids, sticker_data, dir_exists, decode_log,
                   sticker_set_name, requested_name, created, calls,
                   real_sticker_set_name, console, prev>>
    /\ UNCHANGED <<page, page_status, image>>

DlWriteDone ==
    /\ pc = "dl_write"
    /\ files' = [files EXCEPT ![RawPath(Sid)] = body]
    /\ body' = NoBody
    /\ sticker_data' = SetField(Sid, "raw_path", RawPath(Sid))
    /\ i' = NextIndex(i)
    /\ pc' = "download"
    /\ UNCHANGED <<exc, ids, dir_exists, requests_log, decode_log,
                   sticker_set_name, requested_name, created, calls,
                   real_sticker_set_name, console, prev>>
    /\ UNCHANGED <<page, page_status, image>>

DlWriteFail ==
    /\ pc = "dl_write"
    /\ body' = NoBody
    /\ Raise("download:OSError")
    /\ UNCHANGED <<i, ids, sticker_data, dir_exists, files, requests_log,
                   decode_log, sticker_set_name, requested_name, created,
                   calls, real_sticker_set_name, console, prev>>
    /\ UNCHANGED <<page, page_status, image>>

DownloadLoopEnded_Early == TRUE

DownloadLoopEnded == ~InLoop

DlReturn ==
    /\ pc = "download"
    /\ DownloadLoopEnded
    /\ pc' = "resize"
    /\ i' = 1
    /\ UNCHANGED <<exc, ids, sticker_data, dir_exists, files, body,
                   requests_log, decode_log, sticker_set_name, requested_name,
                   created, calls, real_sticker_set_name, console, prev>>
    /\ UNCHANGED <<page, page_status, image>>

(***************************************************************************)
(* resize_stickers.  Image.open, resize and save of one item are one step: *)
(* the step either writes the resized file or raises.                      *)
(***************************************************************************)
RawAbsent_Never(raw_path) == FALSE

RawAbsent(raw_path) == raw_path = None

Decodable(content) == content = "image"

NeedsTranscode_Always(resized_path) == TRUE

NeedsTranscode(resized_path) == ~is_file(resized_path)

RsAbsent ==
    /\ pc = "resize"
    /\ InLoop
    /\ RawAbsent(sticker_data[Sid].raw_path)
    /\ sticker_data' = SetField(Sid, "resized_path", None)
    /\ i' = NextIndex(i)
    /\ UNCHANGED <<pc, exc, ids, dir_exists, files, body, requests_log,
                   decode_log, sticker_set_name, requested_name, created,
                   calls, real_sticker_set_name, console, prev>>
    /\ UNCHANGED <<page, page_status, image>>

RsCached ==
    /\ pc = "resize"
    /\ InLoop
    /\ ~RawAbsent(sticker_data[Sid].raw_path)
    /\ ~NeedsTranscode(ResizedPath(Sid))
    /\ sticker_data' = SetField(Sid, "resized_path", ResizedPath(Sid))
    /\ i' = NextIndex(i)
    /\ UNCHANGED <<pc, exc, ids, dir_exists, files, body, requests_log,
                   decode_log, sticker_set_name, requested_name, created,
                   calls, real_sticker_set_name, console, prev>>
    /\ UNCHANGED <<page, page_status, image>>

RsTranscode ==
    /\ pc = "resize"
    /\ InLoop
    /\ ~RawAbsent(sticker_data[Sid].raw_path)
    /\ NeedsTranscode(ResizedPath(Sid))
    /\ Decodable(Content(sticker_data[Sid].raw_path))
    /\ decode_log' = Append(decode_log, Sid)
    /\ files' = [files EXCEPT ![ResizedPath(Sid)] = "image"]
    /\ sticker_data' = SetField(Sid, "resized_path", ResizedPath(Sid))
    /\ i' = NextIndex(i)
    /\ UNCHANGED <<pc, exc, ids, dir_exists, body, requests_log,
                   sticker_set_name, requested_name, created, calls,
                   real_sticker_set_name, console, prev>>
    /\ UNCHANGED <<page, page_status, image>>

RsDecodeError ==
    /\ pc = "resize"
    /\ InLoop
    /\ ~RawAbsent(sticker_data[Sid].raw_path)
    /\ NeedsTranscode(ResizedPath(Sid))
    /\ ~Decodable(Content(sticker_data[Sid].raw_path))
    /\ decode_log' = Append(decode_log, Sid)
    /\ Raise("resize:UnidentifiedImageError")
    /\ UNCHANGED <<i, ids, sticker_data, dir_exists, files, body,
                   requests_log, sticker_set_name, requested_name, created,
                   calls, real_sticker_set_name, console, prev>>
    /\ UNCHANGED <<page, page_status, image>>

RsReturn ==
    /\ pc = "resize"
    /\ ~InLoop
    /\ pc' = "publish_enter"
    /\ UNCHANGED <<exc, i, ids, sticker_data, dir_exists, files, body,
                   requests_log, decode_log, sticker_set_name, requested_name,
                   created, calls, real_sticker_set_name, console, prev>>
    /\ UNCHANGED <<page, page_status, image>>

(***************************************************************************)
(* create_telegram_sticker_set.  The emoji of a sticker is a random choice *)
(* that no later step reads; it is left out of the call records.           *)
(***************************************************************************)
FinalName_Requested(requested, username) == requested

FinalName(requested, username) == requested \o "_by_" \o username

Skips_Never(path) == FALSE

Skips(path) == path = None

CallKind_AlwaysCreate(is_created) == "create"

CallKind(is_created) == IF is_created THEN "append" ELSE "create"

BreaksOnError_Never(is_created) == FALSE

BreaksOnError_Always(is_created) == TRUE

BreaksOnError(is_created) == ~is_created

ReturnedName_Always(is_created, name) == name

ReturnedName(is_created, name) == IF is_created THEN name ELSE None

PubEnter ==
    /\ pc = "publish_enter"
    /\ \E requested \in RequestedNames, username \in BotUsernames :
         /\ requested_name' = requested
         /\ sticker_set_name' = FinalName(requested, username)
    /\ created' = FALSE
    /\ i' = 1
    /\ pc' = "publish"
    /\ UNCHANGED <<exc, ids, sticker_data, dir_exists, files, body,
                   requests_log, decode_log, calls, real_sticker_set_name,
                   console, prev>>
    /\ UNCHANGED <<page, page_status, image>>

PubEnterFail ==
    /\ pc = "publish_enter"
    /\ Raise("publish:TelegramError")
    /\ UNCHANGED <<i, ids, sticker_data, dir_exists, files, body,
                   requests_log, decode_log, sticker_set_name, requested_name,
                   created, calls, real_sticker_set_name, console, prev>>
    /\ UNCHANGED <<page, page_status, image>>

PubSkip ==
    /\ pc = "publish"
    /\ InLoop
    /\ Skips(sticker_data[Sid].resized_path)
    /\ i' = NextIndex(i)
    /\ UNCHANGED <<pc, exc, ids, sticker_data, dir_exists, files, body,
                   requests_log, decode_log, sticker_set_name, requested_name,
                   created, calls, real_sticker_set_name, console, prev>>
    /\ UNCHANGED <<page, page_status, image>>

PubIssue ==
    /\ pc = "publish"
    /\ InLoop
    /\ ~Skips(sticker_data[Sid].resized_path)
    /\ calls' = Append(calls, [kind |-> CallKind(created), sid |-> Sid,
                               name |-> sticker_set_name,
                               created_before |-> created,
                               result |-> "pending"])
    /\ pc' = "pub_call"
    /\ UNCHANGED <<exc, i, ids, sticker_data, dir_exists, files, body,
                   requests_log, decode_log, sticker_set_name, requested_name,
                   created, real_sticker_set_name, console, prev>>
    /\ UNCHANGED <<page, page_status, image>>

PubCallOk ==
    /\ pc = "pub_call"
    /\ calls' = SetResult(calls, "ok")
    /\ created' = TRUE
    /\ i' = NextIndex(i)
    /\ pc' = "publish"
    /\ UNCHANGED <<exc, ids, sticker_data, dir_exists, files, body,
                   requests_log, decode_log, sticker_set_name, requested_name,
                   real_sticker_set_name, console, prev>>
    /\ UNCHANGED <<page, page_status, image>>

PubCallFail ==
    /\ pc = "pub_call"
    /\ calls' = SetResult(calls, "TelegramError")
    /\ IF BreaksOnError(created)
          THEN /\ console' = console \o <<"Couldn't create sticker set",
                                          "Aborting...">>
               /\ pc' = "pub_break"
               /\ UNCHANGED <<i, created>>
          ELSE /\ console' = Append(console, "Couldn't add sticker " \o Sid)
               /\ created' = TRUE
               /\ i' = NextIndex(i)
               /\ pc' = "publish"
    /\ UNCHANGED <<exc, ids, sticker_data, dir_exists, files, body,
                   requests_log, decode_log, sticker_set_name, requested_name,
                   real_sticker_set_name, prev>>
    /\ UNCHANGED <<page, page_status, image>>

PubReturn ==
    /\ \/ pc = "pub_break"
       \/ pc = "publish" /\ ~InLoop
    /\ real_sticker_set_name' = ReturnedName(created, sticker_set_name)
    /\ pc' = "report"
    /\ UNCHANGED <<exc, i, ids, sticker_data, dir_exists, files, body,
                   requests_log, decode_log, sticker_set_name, requested_name,
                   created, calls, console, prev>>
    /\ UNCHANGED <<page, page_status, image>>

(***************************************************************************)
(* main: the report after the publisher returned, and the next run         *)
(***************************************************************************)
AccessUrl(name) == "https://t.me/addstickers/" \o name

AllDone == "All done!"

MainReport ==
    /\ pc = "report"
    /\ console' = IF real_sticker_set_name # None
                     THEN console \o <<AllDone,
                                       AccessUrl(real_sticker_set_name)>>
                     ELSE console
    /\ pc' = "done"
    /\ UNCHANGED <<exc, i, ids, sticker_data, dir_exists, files, body,
                   requests_log, decode_log, sticker_set_name, requested_name,
                   created, calls, real_sticker_set_name, prev>>
    /\ UNCHANGED <<page, page_status, image>>

DownloadReturned ==
    /\ pc \notin {"scrape", "mkdir", "download", "dl_get", "dl_write"}
    /\ exc \notin {"scrape:HTTPError", "scrape:ConnectionError",
                   "mkdir:OSError", "download:HTTPError",
                   "download:ConnectionError", "download:OSError"}

ResizeReturned ==
    \/ pc \in {"publish_enter", "publish", "pub_call", "pub_break",
               "report", "done"}
    \/ exc = "publish:TelegramError"

NoPrev ==
    [returned |-> FALSE, raw |-> [s \in {} |-> None],
     resize_returned |-> FALSE, resized |-> [s \in {} |-> None],
     decoded |-> {}]

Rerun ==
    /\ pc \in {"done", "aborted"}
    /\ prev' =
         [returned |-> DownloadReturned,
          raw |-> IF DownloadReturned
                     THEN [s \in DOMAIN sticker_data |->
                              sticker_data[s].raw_path]
                     ELSE NoPrev.raw,
          resize_returned |-> ResizeReturned,
          resized |-> IF ResizeReturned
                         THEN [s \in DOMAIN sticker_data |->
                                  sticker_data[s].resized_path]
                         ELSE NoPrev.resized,
          decoded |-> IF ResizeReturned THEN Range(decode_log) ELSE {}]
    /\ pc' = "scrape"
    /\ exc' = "none"
    /\ i' = 1
    /\ ids' = <<>>
    /\ sticker_data' = [s \in {} |-> None]
    /\ body' = NoBody
    /\ requests_log' = <<>>
    /\ decode_log' = <<>>
    /\ sticker_set_name' = Unset
    /\ requested_name' = Unset
    /\ created' = FALSE
    /\ calls' = <<>>
    /\ real_sticker_set_name' = Unset
    /\ console' = <<>>
    /\ page_status' = "unsent"
    /\ UNCHANGED <<dir_exists, files, page, image>>

Next ==
    \/ ScrapeOk \/ ScrapeFail
    \/ DlMkdir \/ DlMkdirFail
    \/ DlCached \/ DlRequest \/ DlRequestFail \/ DlResponseOk
    \/ DlWriteDone \/ DlWriteFail \/ DlReturn
    \/ RsAbsent \/ RsCached \/ RsTranscode \/ RsDecodeError \/ RsReturn
    \/ PubEnter \/ PubEnterFail \/ PubSkip \/ PubIssue
    \/ PubCallOk \/ PubCallFail \/ PubReturn
    \/ MainReport
    \/ Rerun

Spec == Init /\ [][Next]_vars

(***************************************************************************)
(* get_stickers_urls alone, on every page of at most MaxNodes nodes drawn  *)
(* from NodeChoices: sticker nodes of three identifiers in two spellings   *)
(* (version 1 with ;compress=true, version 2 after another declaration),   *)
(* and nodes that do not match (wrong class, wrong style, no attributes).  *)
(***************************************************************************)
MaxNodes == 3

ScrapeIds == {PageIds[1], PageIds[2], PageIds[3]}

PrefixedNode(version, sid) ==
    [class |-> "FnImage",
     style |-> "width:10px;" \o StyleText(StickerUrl(version, sid), "")]

StickerNodes ==
    {StickerNode("1", sid, ";compress=true") : sid \in ScrapeIds}
        \cup {PrefixedNode("2", sid) : sid \in ScrapeIds}

OtherNodes ==
    {[class |-> "mdCMN38Img", style |-> StyleText(StickerUrl("1", "101"), "")],
     [class |-> "mdCMN09Image", style |-> "background-image:none;"],
     [class |-> None, style |-> None]}

NodeChoices == StickerNodes \cup OtherNodes

Pages == UNION {[1..n -> NodeChoices] : n \in 0..MaxNodes}

FreshRun ==
    /\ exc = "none"
    /\ i = 1
    /\ ids = <<>>
    /\ sticker_data = [s \in {} |-> None]
    /\ dir_exists = FALSE
    /\ files = [p \in AllPaths |-> "none"]
    /\ body = NoBody
    /\ requests_log = <<>>
    /\ decode_log = <<>>
    /\ sticker_set_name = Unset
    /\ requested_name = Unset
    /\ created = FALSE
    /\ calls = <<>>
    /\ real_sticker_set_name = Unset
    /\ console = <<>>
    /\ prev = NoPrev
    /\ page_status = "unsent"

InitScrape ==
    /\ FreshRun
    /\ pc = "scrape"
    /\ page \in Pages
    /\ image = NoImage

NextScrape == ScrapeOk \/ ScrapeFail

SpecScrape == InitScrape /\ [][NextScrape]_vars

(***************************************************************************)
(* The size computation of resize_stickers alone, on every image of width  *)
(* and height in 1..MaxDim.  coefficient = max(width, height) / 512 is a   *)
(* power-of-two division, exact in floating point, and is kept as the      *)
(* fraction <<max, 512>>.  x / coefficient is the correctly rounded value  *)
(* of x * 512 / max; for these dimensions it is an integer only when the   *)
(* exact quotient is, so int() of it is the integer part of the exact      *)
(* quotient.                                                               *)
(***************************************************************************)
MaxDim == 1100

TargetMax == 512

Max(a, b) == IF a >= b THEN a ELSE b

Min(a, b) == IF a <= b THEN a ELSE b

Coefficient_Min(width, height) == <<Min(width, height), TargetMax>>

Coefficient(width, height) == <<Max(width, height), TargetMax>>

IntOfQuotient(x, coefficient) == (x * coefficient[2]) \div coefficient[1]

NewSize(width, height) ==
    <<IntOfQuotient(width, Coefficient(width, height)),
      IntOfQuotient(height, Coefficient(width, height))>>

InitSize ==
    /\ FreshRun
    /\ pc = "image_open"
    /\ page = StandardPage
    /\ \E w, h \in 1..MaxDim :
         image = [width |-> w, height |-> h, size |-> <<>>]

ComputeSize ==
    /\ pc = "image_open"
    /\ image' = [image EXCEPT !.size = NewSize(image.width, image.height)]
    /\ pc' = "image_resized"
    /\ UNCHANGED <<exc, i, ids, sticker_data, dir_exists, files, body,
                   requests_log, decode_log, sticker_set_name, requested_name,
                   created, calls, real_sticker_set_name, console, prev,
                   page, page_status>>

NextSize == ComputeSize

SpecSize == InitSize /\ [][NextSize]_vars

(***************************************************************************)
(* Vocabulary of the properties                                            *)
(***************************************************************************)
CallIdx == 1..Len(calls)

IndexOf(sid) == CHOOSE m \in 1..Len(ids) : ids[m] = sid

OkCreate(k) == calls[k].kind = "create" /\ calls[k].result = "ok"

FailedCreate(k) ==
    calls[k].kind = "create" /\ calls[k].result = "TelegramError"

FailedAppend(k) ==
    calls[k].kind = "append" /\ calls[k].result = "TelegramError"

CallsFor(sid) == {k \in CallIdx : calls[k].sid = sid}

Published(sid) == \E k \in CallsFor(sid) : calls[k].result = "ok"

PublisherReturned == pc \in {"report", "done"}

Present(path) == path \notin {None, Unset}

(***************************************************************************)
(* C1: when the create call fails, the publish loop ends at once: the      *)
(* failed create is the last bot call of the run, the loop has been left,  *)
(* and the run's calls hold no append.                                     *)
(***************************************************************************)
C1_CreateFailureEndsLoop ==
    \A k \in CallIdx :
        FailedCreate(k) =>
            /\ k = Len(calls)
            /\ pc \in {"pub_break", "report", "done"}
            /\ \A j \in CallIdx : calls[j].kind # "append"

C1_Witness ==
    /\ pc = "done"
    /\ \E k \in CallIdx :
         /\ FailedCreate(k)
         /\ \E m \in 1..Len(ids) :
              /\ m > IndexOf(calls[k].sid)
              /\ Present(sticker_data[ids[m]].resized_path)

(***************************************************************************)
(* C2: once the create call has succeeded, a failed append leaves the loop *)
(* running: when the publisher has returned, every later item with a       *)
(* resized_path has exactly one call, an append; and no failed append      *)
(* is followed by the break of the loop.                                   *)
(***************************************************************************)
C2_AppendFailureContinues ==
    /\ \A k \in CallIdx : FailedAppend(k) => pc # "pub_break"
    /\ PublisherReturned =>
         \A k \in CallIdx :
            OkCreate(k) =>
               \A m \in 1..Len(ids) :
                  (m > IndexOf(calls[k].sid)
                     /\ sticker_data[ids[m]].resized_path # None)
                  => /\ Cardinality(CallsFor(ids[m])) = 1
                     /\ \A j \in CallsFor(ids[m]) :
                           /\ calls[j].kind = "append"
                           /\ calls[j].result \in {"ok", "TelegramError"}

C2_Witness ==
    /\ PublisherReturned
    /\ \E j, k \in CallIdx :
         /\ j < k
         /\ FailedAppend(j)
         /\ calls[k].kind = "append"
         /\ calls[k].result = "ok"

(***************************************************************************)
(* C3: created is false until a create call has succeeded and true from    *)
(* then on; a create call is issued only while created is false and an     *)
(* append only while it is true; at most one create call succeeds and no   *)
(* append comes before it.                                                 *)
(***************************************************************************)
C3_CreatedFlag ==
    /\ created <=> \E k \in CallIdx : OkCreate(k)
    /\ \A k \in CallIdx :
         /\ calls[k].kind = "create" => ~calls[k].created_before
         /\ calls[k].kind = "append" => calls[k].created_before
         /\ calls[k].created_before <=> \E j \in 1..(k - 1) : OkCreate(j)
    /\ Cardinality({k \in CallIdx : OkCreate(k)}) <= 1

C3_Witness ==
    /\ pc = "done"
    /\ created
    /\ \E k \in CallIdx : FailedAppend(k)
    /\ \E s \in Sids : sticker_data[s].resized_path = None

(***************************************************************************)
(* C4: an item whose resized_path is None gets no bot call, and the step   *)
(* over it changes neither created nor the set name.                       *)
(***************************************************************************)
C4_SkipStep ==
    (pc = "publish" /\ InLoop /\ sticker_data[Sid].resized_path = None)
    => /\ calls' = calls
       /\ created' = created
       /\ sticker_set_name' = sticker_set_name
       /\ i' = i + 1
       /\ pc' = "publish"

C4_AbsentIsSkipped ==
    /\ [](\A k \in CallIdx : sticker_data[calls[k].sid].resized_path # None)
    /\ [][C4_SkipStep]_vars

C4_Witness ==
    /\ PublisherReturned
    /\ \E m \in 1..Len(ids) :
         /\ sticker_data[ids[m]].resized_path = None
         /\ \E j, k \in CallIdx :
              /\ IndexOf(calls[j].sid) < m
              /\ m < IndexOf(calls[k].sid)
              /\ OkCreate(j)

(***************************************************************************)
(* C5: the name returned for a created set is the requested name with the  *)
(* suffix _by_<bot username>, so never the requested name itself, and      *)
(* it is the name every create and append call of the run was given.       *)
(***************************************************************************)
C5_FinalName ==
    /\ \A j, k \in CallIdx : calls[j].name = calls[k].name
    /\ \A k \in CallIdx : calls[k].name = sticker_set_name
    /\ Present(real_sticker_set_name) =>
         /\ real_sticker_set_name # requested_name
         /\ \E u \in BotUsernames :
               real_sticker_set_name = requested_name \o "_by_" \o u
         /\ \A k \in CallIdx : calls[k].name = real_sticker_set_name

C5_Witness ==
    /\ pc = "done"
    /\ Present(real_sticker_set_name)
    /\ \E k \in CallIdx : calls[k].kind = "append" /\ calls[k].result = "ok"

(***************************************************************************)
(* C6: the publisher returns a name exactly when an item was published     *)
(* (created is true), and main prints the success line and the access url  *)
(* of that name exactly then.                                              *)
(***************************************************************************)
C6_NameIffPublished ==
    /\ PublisherReturned =>
         /\ real_sticker_set_name # None <=> \E s \in Sids : Published(s)
         /\ real_sticker_set_name # None <=> created
    /\ pc # "done" => AllDone \notin Range(console)
    /\ pc = "done" =>
         IF \E s \in Sids : Published(s)
            THEN /\ Len(console) >= 2
                 /\ console[Len(console) - 1] = AllDone
                 /\ console[Len(console)] = AccessUrl(real_sticker_set_name)
            ELSE AllDone \notin Range(console)

C6_Witness ==
    /\ pc = "done"
    /\ AllDone \in Range(console)
    /\ \E k \in CallIdx : FailedAppend(k)

C6_WitnessNothingPublished ==
    /\ pc = "done"
    /\ AllDone \notin Range(console)
    /\ \E k \in CallIdx : FailedCreate(k)

(***************************************************************************)
(* C7: a failed GET of download_stickers, by status or by transport        *)
(* error, leaves raw_path None for that item and the loop goes on: no      *)
(* such failure ends the run, and when the stage has returned every id     *)
(* has a raw_path entry.                                                   *)
(***************************************************************************)
C7_DownloadFailureIsPerItem ==
    /\ \A k \in 1..Len(requests_log) :
         requests_log[k].result \in {"HTTPError", "ConnectionError"}
            => sticker_data[requests_log[k].sid].raw_path = None
    /\ exc \notin {"download:HTTPError", "download:ConnectionError"}
    /\ DownloadReturned =>
         \A s \in Sids : sticker_data[s].raw_path # Unset

(***************************************************************************)
(* C8: a raw image that cannot be decoded leaves resized_path None for     *)
(* that item only, and resize_stickers goes on with the next item.         *)
(***************************************************************************)
C8_DecodeFailureIsPerItem ==
    /\ exc # "resize:UnidentifiedImageError"
    /\ \A s \in Range(decode_log) :
         ~Decodable(Content(sticker_data[s].raw_path))
            => sticker_data[s].resized_path = None

(***************************************************************************)
(* C9: an item whose raw_path is None is never decoded, gets resized_path  *)
(* None whatever the directory holds, and gets no bot call; and            *)
(* resize_stickers never raises at such an item.                           *)
(***************************************************************************)
C9_AbsencePropagates ==
    \A s \in DOMAIN sticker_data :
        sticker_data[s].raw_path = None =>
            /\ sticker_data[s].resized_path \in {Unset, None}
            /\ ResizeReturned => sticker_data[s].resized_path = None
            /\ s \notin Range(decode_log)
            /\ CallsFor(s) = {}
            /\ (exc = "resize:UnidentifiedImageError" => ids[i] # s)

C9_Witness ==
    /\ pc = "done"
    /\ \E s, t \in Sids :
         /\ sticker_data[s].raw_path = None
         /\ is_file(ResizedPath(s))
         /\ IndexOf(s) < IndexOf(t)
         /\ t \in Range(decode_log)
         /\ Published(t)

(***************************************************************************)
(* C10: a second run of download_stickers on the same directory and the    *)
(* same mapping.  As stated: it issues no request and records the mapping  *)
(* of the first run, whatever the first run's downloads did.               *)
(***************************************************************************)
C10_SecondRunIsSilent ==
    prev.returned =>
        /\ requests_log = <<>>
        /\ DownloadReturned =>
             \A s \in Sids : sticker_data[s].raw_path = prev.raw[s]

(***************************************************************************)
(* C10, amended: for every id the first run recorded a raw_path for, the   *)
(* second run issues no request and records the same raw_path; when the    *)
(* first run recorded one for every id, the second run issues no request   *)
(* at all and its mapping is the first run's.  (An id whose download       *)
(* failed in the first run is requested again.)                            *)
(***************************************************************************)
C10_SecondRunReusesFiles ==
    prev.returned =>
        /\ \A s \in Sids :
              prev.raw[s] # None =>
                 /\ \A k \in 1..Len(requests_log) : requests_log[k].sid # s
                 /\ (s \in DOMAIN sticker_data
                       /\ sticker_data[s].raw_path # Unset)
                    => sticker_data[s].raw_path = prev.raw[s]
        /\ (\A s \in Sids : prev.raw[s] # None) =>
              /\ requests_log = <<>>
              /\ DownloadReturned =>
                   \A s \in Sids : sticker_data[s].raw_path = prev.raw[s]

C10_Witness ==
    /\ prev.returned
    /\ DownloadReturned
    /\ \E s, t \in Sids :
         /\ prev.raw[s] # None
         /\ sticker_data[s].raw_path = prev.raw[s]
         /\ prev.raw[t] = None
         /\ \E k \in 1..Len(requests_log) : requests_log[k].sid = t

(***************************************************************************)
(* C11: when the raw file of the item being processed exists, the step     *)
(* issues no request and records that path as raw_path; a request is       *)
(* issued only for the item being processed and only when its raw file     *)
(* does not exist.                                                         *)
(***************************************************************************)
C11_Step ==
    /\ (pc = "download" /\ InLoop /\ is_file(RawPath(Sid)))
       => /\ requests_log' = requests_log
          /\ sticker_data'[Sid].raw_path = RawPath(Sid)
    /\ Len(requests_log') > Len(requests_log)
       => /\ pc = "download"
          /\ InLoop
          /\ ~is_file(RawPath(Sid))
          /\ requests_log' = Append(requests_log,
                                    requests_log'[Len(requests_log')])
          /\ requests_log'[Len(requests_log')].sid = Sid

C11_CachedFileIsReused == [][C11_Step]_vars

C11_Witness ==
    /\ DownloadReturned
    /\ \E s, t \in Sids :
         /\ sticker_data[s].raw_path = RawPath(s)
         /\ \A k \in 1..Len(requests_log) : requests_log[k].sid # s
         /\ \E k \in 1..Len(requests_log) :
              requests_log[k].sid = t /\ requests_log[k].result = "ok"

(***************************************************************************)
(* C12: a second run of resize_stickers on the same directory and the      *)
(* same raw results, after a first run that returned, decodes no image     *)
(* and records the resized_path the first run recorded for every id; and   *)
(* an image is opened only for the item being processed, when its          *)
(* raw_path is present and its resized file does not exist.                *)
(***************************************************************************)
C12_SameRawResults ==
    /\ prev.resize_returned
    /\ DownloadReturned
    /\ \A s \in Sids : sticker_data[s].raw_path = prev.raw[s]

C12_Step ==
    Len(decode_log') > Len(decode_log)
    => /\ pc = "resize"
       /\ InLoop
       /\ Present(sticker_data[Sid].raw_path)
       /\ ~is_file(ResizedPath(Sid))
       /\ decode_log' = Append(decode_log, Sid)

C12_SecondResizeDecodesNothing ==
    /\ [](C12_SameRawResults =>
            /\ decode_log = <<>>
            /\ exc # "resize:UnidentifiedImageError"
            /\ \A s \in Sids :
                 /\ sticker_data[s].resized_path
                       \in {Unset, prev.resized[s]}
                 /\ ResizeReturned =>
                       sticker_data[s].resized_path = prev.resized[s])
    /\ [][C12_Step]_vars

C12_Witness ==
    /\ C12_SameRawResults
    /\ ResizeReturned
    /\ prev.decoded # {}
    /\ \E s \in Sids : prev.resized[s] = None

(***************************************************************************)
(* C13: for every image of width and height at least 1, the computed size  *)
(* has 512 on the longer side of the image, and on the other side a value  *)
(* that is at most 512 and differs from shorter * 512 / longer by at most  *)
(* 1.                                                                      *)
(***************************************************************************)
C13_Within(new_short, short, long) ==
    /\ new_short <= TargetMax
    /\ new_short * long <= short * TargetMax + long
    /\ short * TargetMax <= new_short * long + long

C13_LongerSideIs512 ==
    image.size # <<>> =>
        IF image.width >= image.height
           THEN /\ image.size[1] = 512
                /\ C13_Within(image.size[2], image.height, image.width)
           ELSE /\ image.size[2] = 512
                /\ C13_Within(image.size[1], image.width, image.height)

C13_Witness ==
    /\ image.size # <<>>
    /\ image.width > TargetMax
    /\ image.height < image.width
    /\ (image.height * TargetMax) % image.width # 0
    /\ image.size[2] > 0

(***************************************************************************)
(* C14: when the page request fails, by status or by transport error, the  *)
(* run ends in get_stickers_urls: the failing step and the rest of the run *)
(* leave the directory and its files as they were, nothing is requested,   *)
(* decoded or sent to the bot, and nothing is printed.                     *)
(***************************************************************************)
C14_PageFailed == page_status \notin {"unsent", "200"}

C14_PageFailureEndsRun ==
    /\ [](C14_PageFailed =>
            /\ pc = "aborted"
            /\ exc \in {"scrape:HTTPError", "scrape:ConnectionError"}
            /\ ids = <<>>
            /\ DOMAIN sticker_data = {}
            /\ requests_log = <<>>
            /\ decode_log = <<>>
            /\ calls = <<>>
            /\ sticker_set_name = Unset
            /\ console = <<>>)
    /\ [][C14_PageFailed' =>
            /\ dir_exists' = dir_exists
            /\ files' = files]_vars

C14_Witness ==
    /\ page_status = "404"
    /\ pc = "aborted"
    /\ ~dir_exists

(***************************************************************************)
(* C15: every step of download_stickers keeps the keys, the urls and the   *)
(* resized_path entries; every step of resize_stickers keeps the keys, the *)
(* urls and the raw_path entries; every step of the publisher, up to       *)
(* main's report, keeps the whole mapping, the directory and its files.    *)
(***************************************************************************)
C15_SameKeysAndUrls ==
    /\ ids' = ids
    /\ DOMAIN sticker_data' = DOMAIN sticker_data
    /\ \A s \in DOMAIN sticker_data :
          sticker_data'[s].url = sticker_data[s].url

C15_Step ==
    /\ pc \in {"mkdir", "download", "dl_get", "dl_write"}
       => /\ C15_SameKeysAndUrls
          /\ \A s \in DOMAIN sticker_data :
                sticker_data'[s].resized_path = sticker_data[s].resized_path
    /\ pc = "resize"
       => /\ C15_SameKeysAndUrls
          /\ \A s \in DOMAIN sticker_data :
                sticker_data'[s].raw_path = sticker_data[s].raw_path
    /\ pc \in {"publish_enter", "publish", "pub_call", "pub_break", "report"}
       => /\ ids' = ids
          /\ sticker_data' = sticker_data
          /\ files' = files
          /\ dir_exists' = dir_exists

C15_StagesWriteOwnField ==
    /\ [](DOMAIN sticker_data = Range(ids))
    /\ [][C15_Step]_vars

C15_Witness ==
    /\ pc = "report"
    /\ \E k \in CallIdx : FailedCreate(k)
    /\ \E s, t \in Sids :
         /\ sticker_data[s].raw_path = None
         /\ Present(sticker_data[t].resized_path)
         /\ Published(t) = FALSE

(***************************************************************************)
(* C16: on a page whose sticker nodes have pairwise distinct identifiers,  *)
(* get_stickers_urls returns one entry per sticker node and none for any   *)
(* other node: the keys are the identifiers of the sticker nodes in        *)
(* document order and each entry holds the url of its node.  What a        *)
(* sticker node's identifier and url are is read off C16_Truth, the        *)
(* table of how the nodes were written.                                    *)
(***************************************************************************)
C16_Truth ==
    {<<StickerNode("1", sid, ";compress=true"), sid, StickerUrl("1", sid)>> :
        sid \in ScrapeIds}
    \cup {<<PrefixedNode("2", sid), sid, StickerUrl("2", sid)>> :
        sid \in ScrapeIds}

C16_IsSticker(node) == node \in StickerNodes

C16_TrueSid(node) == (CHOOSE t \in C16_Truth : t[1] = node)[2]

C16_TrueUrl(node) == (CHOOSE t \in C16_Truth : t[1] = node)[3]

C16_OneEntryPerStickerNode ==
    LET matching == SelectSeq(page, C16_IsSticker)
    IN  (/\ page_status = "200"
         /\ \A j, k \in 1..Len(matching) :
               j # k => C16_TrueSid(matching[j]) # C16_TrueSid(matching[k]))
        => /\ Len(ids) = Len(matching)
           /\ DOMAIN sticker_data = Range(ids)
           /\ \A k \in 1..Len(matching) :
                 /\ ids[k] = C16_TrueSid(matching[k])
                 /\ sticker_data[ids[k]] =
                       [url |-> C16_TrueUrl(matching[k]),
                        raw_path |-> Unset, resized_path |-> Unset]

C16_Witness ==
    /\ page_status = "200"
    /\ Len(page) = 3
    /\ page[1] = PrefixedNode("2", "102")
    /\ page[2] \in OtherNodes
    /\ page[3] = StickerNode("1", "101", ";compress=true")
    /\ ids = <<"102", "101">>

(***************************************************************************)
(* C17: the stages run one after the other: a download request is issued   *)
(* only when the scraped mapping is complete, an image is opened or a      *)
(* resized_path recorded only when every id has a raw_path entry and no    *)
(* request is pending, and the bot is used only when every id has a        *)
(* resized_path entry.                                                     *)
(***************************************************************************)
C17_StagesInOrder ==
    /\ requests_log # <<>> =>
         /\ page_status = "200"
         /\ Len(ids) = NumIds
         /\ DOMAIN sticker_data = Range(ids)
    /\ (\/ decode_log # <<>>
        \/ \E s \in DOMAIN sticker_data :
              sticker_data[s].resized_path # Unset)
       => /\ \A s \in DOMAIN sticker_data : sticker_data[s].raw_path # Unset
          /\ \A k \in 1..Len(requests_log) :
                requests_log[k].result # "pending"
    /\ (calls # <<>> \/ sticker_set_name # Unset)
       => \A s \in DOMAIN sticker_data :
             sticker_data[s].resized_path # Unset

C17_Witness ==
    /\ pc = "done"
    /\ requests_log # <<>>
    /\ decode_log # <<>>
    /\ Len(calls) >= 2

(***************************************************************************)
(* C18: the bot calls of the publish loop are issued one at a time in      *)
(* mapping order: only the last call of the run can be pending, and only   *)
(* while the loop waits for it at that item; the calls follow the order    *)
(* of the keys.                                                            *)
(***************************************************************************)
C18_OneCallAtATime ==
    /\ \A k \in CallIdx :
          calls[k].result = "pending" =>
             /\ k = Len(calls)
             /\ pc = "pub_call"
             /\ calls[k].sid = ids[i]
    /\ pc = "pub_call" =>
          /\ calls # <<>>
          /\ calls[Len(calls)].result = "pending"
    /\ \A j, k \in CallIdx :
          j < k => IndexOf(calls[j].sid) < IndexOf(calls[k].sid)

C18_Witness ==
    /\ pc = "pub_call"
    /\ Len(calls) = 3
    /\ FailedAppend(2)
    /\ calls[3].result = "pending"

(***************************************************************************)
(* C19: within a run, each id gets at most one GET and at most one bot     *)
(* call, whatever their outcome.                                           *)
(***************************************************************************)
C19_RequestsFor(sid) ==
    {k \in 1..Len(requests_log) : requests_log[k].sid = sid}

C19_NoRetries ==
    \A s \in Sids :
        /\ Cardinality(C19_RequestsFor(s)) <= 1
        /\ Cardinality(CallsFor(s)) <= 1

C19_Witness ==
    /\ pc = "done"
    /\ \E k \in 1..Len(requests_log) : requests_log[k].result = "HTTPError"
    /\ \E k \in CallIdx : FailedAppend(k)

(***************************************************************************)
(* C20: the raw file is written atomically: outside the write itself, and  *)
(* so also after a run that ended during the write, no truncated file is   *)
(* at a raw path, and no run records a truncated file as raw_path.         *)
(***************************************************************************)
C20_RawFilesAreComplete ==
    /\ pc # "dl_write" =>
          \A s \in Sids : Content(RawPath(s)) # "partial"
    /\ \A s \in DOMAIN sticker_data :
          Present(sticker_data[s].raw_path) =>
             Content(sticker_data[s].raw_path) # "partial"

====
